---- MODULE Spec2Model ----
(***************************************************************************)
(* Item/tag datastore and bidirectional sync engine of the desktop (Tauri) *)
(* backend of peek: datastore.rs (store) and sync.rs (pull / push / full   *)
(* sync).  One action per handler step; every locked section of the code   *)
(* is one action, or a run of actions during which `lock` is held.         *)
(***************************************************************************)
EXTENDS Integers, Sequences, FiniteSets, TLC

\* ------------------------------------------------------------------ bounds
MaxTime == 2        \* wall clock (ms) runs over 1..MaxTime
MaxItems == 2       \* rows ever inserted into `items`
MaxSyncs == 1       \* sync commands (pull / push / full) ever started
MaxResp == 1        \* server items merged out of one pull response
MaxLocalOps == 1    \* local updateItem / deleteItem / config commands

\* --------------------------------------------------------- value domains
None == "none"                       \* Option::None / SQL NULL
ServerIds == {"s1", "s2"}
Tasks == {"t1"}
BadStamp == -1                       \* a timestamp string chrono cannot parse
\* updated_at of a server item: unparsable, in the past or present of the local
\* clock, and ahead of it
RemoteStamps == {BadStamp, 2, MaxTime + 1}

\* generate_id("item"): the n-th id handed out; rowid order is this order
ItemIdSeq == <<"item_1", "item_2", "item_3", "item_4">>
generate_id(n) == ItemIdSeq[n]
RowId(id) == CHOOSE n \in 1 .. Len(ItemIdSeq) : ItemIdSeq[n] = id

\* CHECK(type IN ('note', 'tagset', 'image')) of the items table
AllowedTypes == {"note", "tagset", "image"}

\* types the command surface is called with
LocalTypes == {"url", "tagset"}

\* ItemOptions the command surface is called with: nothing supplied, content,
\* metadata
NoOptions == [content |-> None, metadata |-> None, sync_id |-> None,
              sync_source |-> None]
LocalOptions ==
    { NoOptions,
      [NoOptions EXCEPT !.content = "c1"],
      [NoOptions EXCEPT !.metadata = "{\"k\":1}"] }

\* payloads of the items a pull response carries
Payloads ==
    { [item_type |-> "tagset", content |-> None, tags |-> <<>>, metadata |-> None],
      [item_type |-> "tagset", content |-> "c2", tags |-> <<"x">>,
       metadata |-> "{\"k\":1}"],
      [item_type |-> "image", content |-> "c2", tags |-> <<>>, metadata |-> None],
      [item_type |-> "url", content |-> "c2", tags |-> <<"x">>, metadata |-> None],
      [item_type |-> "text", content |-> None, tags |-> <<>>, metadata |-> None] }

\* ServerItem of a pull response; created_at is not followed into the store
ServerItem ==
    { [id |-> i, item_type |-> pl.item_type, content |-> pl.content,
       tags |-> pl.tags, metadata |-> pl.metadata, updated_at |-> u] :
        i \in ServerIds, pl \in Payloads, u \in RemoteStamps }

VARIABLES clock, lock, items, nextItemId, tags, item_tags, address_tags,
          apiKey,
          serverUrl, lastSyncTime, tasks, started, localOps, mobile, ev

vars == <<clock, lock, items, nextItemId, tags, item_tags, address_tags,
          apiKey,
          serverUrl, lastSyncTime, tasks, started, localOps, mobile, ev>>

\* ---------------------------------------------------------------- helpers
\* datastore::now(): the wall clock, read at most one tick later than before
Now == {t \in {clock, clock + 1} : t <= MaxTime}

\* str::to_lowercase on the tag alphabet
Lower(s) == IF s = "X" THEN "x" ELSE s

\* chrono parse of an ISO 8601 string to Unix ms; 0 when it does not parse
from_iso_string(iso) == IF iso = BadStamp THEN 0 ELSE iso

\* serde_json::to_string of a metadata value
ToJsonString(m) == m

\* rows of `items` with deletedAt = 0
Live == {i \in DOMAIN items : items[i].deletedAt = 0}

\* a sync command: its position and the locals of sync_all / pull_from_server /
\* push_to_server; selected (the length of push_items) is kept for the result
\* pending_at_start, merged and version_mismatch are history the code does
\* not keep: the rows pending when a full sync started, the row and outcome
\* of each merge of the pull response, whether a POST was answered with a
\* version mismatch, and the rows whose POST failed
IdleTask == [pc |-> "idle", kind |-> "none", since |-> 0, lst |-> 0,
             start_time |-> 0, remaining |-> 0, queue |-> <<>>,
             selected |-> 0, pulled |-> 0, conflicts |-> 0, pushed |-> 0,
             failed |-> 0, pending_at_start |-> {}, merged |-> <<>>,
             version_mismatch |-> FALSE, failed_ids |-> {}]

\* the mobile backend (tauri-mobile): its items table, its last_sync setting
\* (0: no settings row), the uuid counter, and the position and locals of the
\* one sync command in progress.  Timestamps are RFC 3339 strings in the
\* code; they are numbered in time order here, 0 standing for SQL NULL.
\* merged is history the code does not keep: the rows the pull of this
\* command inserted or overwrote.
MobileIdle == [items |-> <<>>, next_id |-> 1, last_sync |-> 0,
               pc |-> "idle", kind |-> "none", remaining |-> 0,
               queue |-> <<>>, merged |-> {}, syncs |-> 0, ops |-> 0]

\* ev: the last step taken, with what it was given and what it saw before it
\* acted (history only; no action reads it)
NoEv == [op |-> "none"]

\* ------------------------------------------------------- store operations
\* calculate_frecency: frequency * 10 / (1 + days_since_use / 7), rounded
\* half away from zero; times in ms.  The quotient is taken in whole days when
\* the time since last use is a whole number of days (same value, smaller
\* operands).
MsPerDay == 86400000
MsPerWeek == 604800000
calculate_frecency_NoDecay(frequency, last_used_at, current_time) ==
    10 * frequency + (current_time - last_used_at) \div MsPerWeek

calculate_frecency(frequency, last_used_at, current_time) ==
    LET d == current_time - last_used_at
        unit == IF d % MsPerDay = 0 THEN MsPerDay ELSE 1
        e == d \div unit
        w == MsPerWeek \div unit
        num == 20 * frequency * e - (w + e)
        den == 2 * (w + e)
    IN  IF num <= 0 THEN 10 * frequency
        ELSE 10 * frequency
                - (num \div den + IF num % den = 0 THEN 0 ELSE 1)

\* the row add_item inserts (createdAt, mimeType, starred and archived are not
\* followed: nothing in the store or the sync engine reads them); syncedAt is
\* the column sync.rs reads and writes, 0 until a merge or a push commit
NewRow(item_type, options, timestamp) ==
    [type |-> item_type,
     content |-> options.content,
     metadata |-> IF options.metadata = None THEN "{}" ELSE options.metadata,
     syncId |-> IF options.sync_id = None THEN "" ELSE options.sync_id,
     syncSource |-> IF options.sync_source = None THEN "" ELSE options.sync_source,
     updatedAt |-> timestamp, deletedAt |-> 0, syncedAt |-> 0]

\* add_item: the INSERT succeeds iff the CHECK constraint on type holds
add_item_ok(item_type) == item_type \in AllowedTypes

add_item(its, id, item_type, options, timestamp) ==
    [i \in DOMAIN its \cup {id} |->
        IF i = id THEN NewRow(item_type, options, timestamp) ELSE its[i]]

\* update_item: no supplied field -> Ok(false) before any SQL runs
Supplied(options) ==
    \/ options.content # None
    \/ options.metadata # None
    \/ options.sync_id # None
    \/ options.sync_source # None

update_item_result(its, id, options) ==
    Supplied(options) /\ id \in DOMAIN its /\ its[id].deletedAt = 0

update_item(its, id, options, timestamp) ==
    IF update_item_result(its, id, options)
    THEN [its EXCEPT ![id] =
            [@ EXCEPT
               !.content = IF options.content # None THEN options.content ELSE @,
               !.metadata = IF options.metadata # None THEN options.metadata ELSE @,
               !.syncId = IF options.sync_id # None THEN options.sync_id ELSE @,
               !.syncSource = IF options.sync_source # None
                              THEN options.sync_source ELSE @,
               !.updatedAt = timestamp]]
    ELSE its

delete_item_Again(its, id, timestamp) ==
    IF id \in DOMAIN its
    THEN [its EXCEPT ![id] = [@ EXCEPT !.deletedAt = timestamp,
                                       !.updatedAt = timestamp]]
    ELSE its

delete_item_result(its, id) == id \in DOMAIN its /\ its[id].deletedAt = 0

delete_item(its, id, timestamp) ==
    IF delete_item_result(its, id)
    THEN [its EXCEPT ![id] = [@ EXCEPT !.deletedAt = timestamp,
                                       !.updatedAt = timestamp]]
    ELSE its

\* tag names the command surface is called with: lower case, upper case,
\* with leading whitespace
TagNames == {"x", "X", " x"}

\* str::trim on the tag alphabet
Trim(s) == IF s = " x" THEN "x" ELSE s

\* get_or_create_tag: match on LOWER(name), else insert with frequency 0;
\* yields the tag table and the id of the tag
get_or_create_tag(tgs, name) ==
    LET hit == {t \in DOMAIN tgs : Lower(tgs[t].name) = Lower(name)}
    IN  IF hit # {}
        THEN [tags |-> tgs, id |-> CHOOSE t \in hit : \A u \in hit : t <= u,
              created |-> FALSE]
        ELSE [tags |-> Append(tgs, [name |-> Trim(name), frequency |-> 0,
                                    lastUsedAt |-> 0, frecencyScore |-> 0]),
              id |-> Len(tgs) + 1, created |-> TRUE]

tag_item_Always(st, item_id, tag_id, timestamp) ==
    [tags |->
        IF tag_id \in DOMAIN st.tags
        THEN [st.tags EXCEPT ![tag_id] =
                [@ EXCEPT !.frequency = @ + 1, !.lastUsedAt = timestamp,
                          !.frecencyScore = 10 * (st.tags[tag_id].frequency + 1)]]
        ELSE st.tags,
     item_tags |-> st.item_tags \cup {[itemId |-> item_id, tagId |-> tag_id]}]

\* tag_item on the pair (tags, item_tags): an existing link is returned as is,
\* a new link bumps the tag's frequency and recomputes its frecency
tag_item(st, item_id, tag_id, timestamp) ==
    IF \E l \in st.item_tags : l.itemId = item_id /\ l.tagId = tag_id
    THEN st
    ELSE [tags |->
            IF tag_id \in DOMAIN st.tags
            THEN [st.tags EXCEPT ![tag_id] =
                    [@ EXCEPT !.frequency = @ + 1,
                              !.lastUsedAt = timestamp,
                              !.frecencyScore =
                                  calculate_frecency(st.tags[tag_id].frequency + 1,
                                                     timestamp, timestamp)]]
            ELSE st.tags,
          item_tags |-> st.item_tags \cup
              {[itemId |-> item_id, tagId |-> tag_id]}]

\* get_item_tags: names of the tags linked to an item
get_item_tags(tgs, links, item_id) ==
    {tgs[l.tagId].name : l \in {k \in links : k.itemId = item_id /\ k.tagId \in DOMAIN tgs}}

RECURSIVE SyncTagsLoop(_, _, _, _)
SyncTagsLoop(st, item_id, tag_names, timestamp) ==
    IF tag_names = <<>> THEN st
    ELSE LET r == get_or_create_tag(st.tags, Head(tag_names))
         IN  SyncTagsLoop(tag_item([tags |-> r.tags, item_tags |-> st.item_tags],
                                   item_id, r.id, timestamp),
                          item_id, Tail(tag_names), timestamp)

sync_tags_to_item_Decrement(st, item_id, tag_names, timestamp) ==
    SyncTagsLoop([tags |->
                    [t \in DOMAIN st.tags |->
                        IF \E l \in st.item_tags : l.itemId = item_id /\ l.tagId = t
                        THEN [st.tags[t] EXCEPT !.frequency = @ - 1]
                        ELSE st.tags[t]],
                  item_tags |-> {l \in st.item_tags : l.itemId # item_id}],
                 item_id, tag_names, timestamp)

\* sync_tags_to_item: drop the item's links, then get-or-create + link each name
sync_tags_to_item(st, item_id, tag_names, timestamp) ==
    SyncTagsLoop([tags |-> st.tags,
                  item_tags |-> {l \in st.item_tags : l.itemId # item_id}],
                 item_id, tag_names, timestamp)

\* get_item: the row, if it exists and is not soft-deleted (an Option, as a
\* set of at most one row)
get_item(its, id) ==
    IF id \in DOMAIN its /\ its[id].deletedAt = 0 THEN {its[id]} ELSE {}

\* query_items with an empty filter but for include_deleted: the ids returned
query_items(its, include_deleted) ==
    {i \in DOMAIN its : include_deleted \/ its[i].deletedAt = 0}

\* tag_item's second component: the link was already there
tag_item_exists(links, item_id, tag_id) ==
    \E l \in links : l.itemId = item_id /\ l.tagId = tag_id

\* untag_item: DELETE FROM item_tags WHERE itemId = ?1 AND tagId = ?2
untag_item(links, item_id, tag_id) ==
    {l \in links : ~(l.itemId = item_id /\ l.tagId = tag_id)}

hard_delete_item_Soft(its, id) ==
    IF id \in DOMAIN its THEN [its EXCEPT ![id] = [@ EXCEPT !.deletedAt = 1]]
    ELSE its

\* hard_delete_item: the item's links, then the row
hard_delete_item(its, id) == [i \in DOMAIN its \ {id} |-> its[i]]

\* tag_address on the pair (tags, address_tags): an existing link is returned
\* as is; a new link bumps the tag's frequency in SQL and stores
\* calculate_frecency(1, timestamp)
tag_address(st, address_id, tag_id, timestamp) ==
    IF \E l \in st.address_tags : l.addressId = address_id /\ l.tagId = tag_id
    THEN st
    ELSE [tags |->
            IF tag_id \in DOMAIN st.tags
            THEN [st.tags EXCEPT ![tag_id] =
                    [@ EXCEPT !.frequency = @ + 1,
                              !.lastUsedAt = timestamp,
                              !.frecencyScore =
                                  calculate_frecency(1, timestamp, timestamp)]]
            ELSE st.tags,
          address_tags |-> st.address_tags \cup
              {[addressId |-> address_id, tagId |-> tag_id]}]

\* The database file outlives the process: init_database opens what earlier
\* runs left behind.  The stores a run starts from: nothing; one item added
\* and never synced; one item added, tagged "x" and pushed (or pulled) at
\* time 1.
LocalOnlyRow == NewRow("tagset", [NoOptions EXCEPT !.content = "c1"], 1)
SyncedRow == [LocalOnlyRow EXCEPT !.syncId = "s1", !.syncSource = "server",
                                  !.syncedAt = 1]
InitStores ==
    { [items |-> <<>>, tags |-> <<>>, item_tags |-> {}, nextItemId |-> 1],
      [items |-> add_item(<<>>, generate_id(1), "tagset",
                          [NoOptions EXCEPT !.content = "c1"], 1),
       tags |-> <<>>, item_tags |-> {}, nextItemId |-> 2],
      [items |-> [i \in {generate_id(1)} |-> SyncedRow],
       tags |-> <<[name |-> "x", frequency |-> 1, lastUsedAt |-> 1,
                   frecencyScore |-> calculate_frecency(1, 1, 1)]>>,
       item_tags |-> {[itemId |-> generate_id(1), tagId |-> 1]},
       nextItemId |-> 2] }

\* serverUrl is the stored sync/serverUrl setting (None while the row is
\* absent); a synced row or a watermark presupposes a server URL and an API
\* key
Init ==
    /\ clock = 1
    /\ lock = "free"
    /\ \E st \in InitStores :
        /\ items = st.items
        /\ nextItemId = st.nextItemId
        /\ tags = st.tags
        /\ item_tags = st.item_tags
    /\ address_tags = {}
    /\ mobile = MobileIdle
    /\ apiKey \in {"", "key"}
    /\ serverUrl \in {"", "https://peek"}
    /\ lastSyncTime \in {0, 1}
    /\ (apiKey = "" \/ serverUrl = "")
          => /\ lastSyncTime = 0
             /\ \A i \in DOMAIN items : items[i].syncId = ""
    /\ tasks = [p \in Tasks |-> IdleTask]
    /\ started = 0
    /\ localOps = 0
    /\ ev = NoEv

\* ---------------------------------------------------- local CRUD commands
\* datastore_add_item: lock, add_item, unlock
AddItem(item_type, options) ==
    /\ lock = "free"
    /\ nextItemId <= MaxItems
    /\ \E now \in Now :
        /\ clock' = now
        /\ IF add_item_ok(item_type)
           THEN /\ items' = add_item(items, generate_id(nextItemId), item_type,
                                      options, now)
                /\ nextItemId' = nextItemId + 1
                /\ ev' = [op |-> "addItem", ok |-> TRUE,
                          id |-> generate_id(nextItemId),
                          item_type |-> item_type, options |-> options,
                          items |-> items]
           ELSE /\ UNCHANGED <<items, nextItemId>>
                /\ ev' = [op |-> "addItem", ok |-> FALSE, id |-> "",
                          item_type |-> item_type, options |-> options,
                          items |-> items]
    /\ UNCHANGED <<lock, tags, item_tags, apiKey, serverUrl, address_tags, lastSyncTime, tasks, started,
                   localOps, mobile>>

\* the row a command finds under an id before it acts (history); a row of
\* blanks when there is none
RowBefore(its, id) ==
    IF id \in DOMAIN its THEN its[id]
    ELSE [type |-> None, content |-> None, metadata |-> None, syncId |-> "",
          syncSource |-> "", updatedAt |-> 0, deletedAt |-> 0, syncedAt |-> 0]

\* datastore_update_item
UpdateItem(id, options) ==
    /\ lock = "free"
    /\ localOps < MaxLocalOps
    /\ \E now \in Now :
        /\ clock' = now
        /\ items' = update_item(items, id, options, now)
        /\ ev' = [op |-> "updateItem", id |-> id, options |-> options,
                  ok |-> update_item_result(items, id, options),
                  found |-> id \in DOMAIN items,
                  row |-> RowBefore(items, id), now |-> now,
                  before |-> [syncId |-> RowBefore(items, id).syncId,
                              syncSource |-> RowBefore(items, id).syncSource,
                              updatedAt |-> RowBefore(items, id).updatedAt,
                              syncedAt |-> RowBefore(items, id).syncedAt]]
    /\ localOps' = localOps + 1
    /\ UNCHANGED <<lock, nextItemId, tags, item_tags, apiKey, serverUrl, address_tags, lastSyncTime,
                   tasks, started, mobile>>

\* datastore_delete_item (soft delete)
DeleteItem(id) ==
    /\ lock = "free"
    /\ localOps < MaxLocalOps
    /\ \E now \in Now :
        /\ clock' = now
        /\ items' = delete_item(items, id, now)
        /\ ev' = [op |-> "deleteItem", id |-> id,
                  ok |-> delete_item_result(items, id),
                  found |-> id \in DOMAIN items,
                  row |-> RowBefore(items, id), now |-> now,
                  tags |-> tags, item_tags |-> item_tags]
    /\ localOps' = localOps + 1
    /\ UNCHANGED <<lock, nextItemId, tags, item_tags, apiKey, serverUrl, address_tags, lastSyncTime,
                   tasks, started, mobile>>

\* sync_set_config -> set_sync_config: an empty URL, an empty key and a zero
\* watermark are not written
SyncSetConfig(url, api_key, last_sync_time) ==
    /\ lock = "free"
    /\ serverUrl' = IF url # "" THEN url ELSE serverUrl
    /\ apiKey' = IF api_key # "" THEN api_key ELSE apiKey
    /\ lastSyncTime' = IF last_sync_time > 0 THEN last_sync_time ELSE lastSyncTime
    /\ <<serverUrl', apiKey', lastSyncTime'>> # <<serverUrl, apiKey, lastSyncTime>>
    /\ ev' = [op |-> "setConfig"]
    /\ UNCHANGED <<clock, lock, items, nextItemId, tags, item_tags, address_tags,
                   tasks, started, localOps, mobile>>

\* datastore_hard_delete_item
HardDeleteItem(id) ==
    /\ lock = "free"
    /\ localOps < MaxLocalOps
    /\ item_tags' = {l \in item_tags : l.itemId # id}
    /\ items' = hard_delete_item(items, id)
    /\ ev' = [op |-> "hardDeleteItem", id |-> id, ok |-> id \in DOMAIN items,
              tags |-> tags, items |-> items, item_tags |-> item_tags]
    /\ localOps' = localOps + 1
    /\ UNCHANGED <<clock, lock, nextItemId, tags, address_tags, apiKey, serverUrl,
                   lastSyncTime, tasks, started, mobile>>

\* datastore_get_or_create_tag
GetOrCreateTag(name) ==
    /\ lock = "free"
    /\ localOps < MaxLocalOps
    /\ \E now \in Now :
        /\ clock' = now
        /\ LET r == get_or_create_tag(tags, name)
           IN  /\ tags' = r.tags
               /\ ev' = [op |-> "getOrCreateTag", name |-> name, id |-> r.id,
                         created |-> r.created, tags |-> tags]
    /\ localOps' = localOps + 1
    /\ UNCHANGED <<lock, items, nextItemId, item_tags, address_tags, apiKey,
                   serverUrl, lastSyncTime, tasks, started, mobile>>

\* what the history keeps of a tagItem step for the step after it
LastTagItem(e) ==
    IF e.op = "tagItem"
    THEN [op |-> "tagItem", item_id |-> e.item_id, tag_id |-> e.tag_id,
          already_exists |-> e.already_exists, tags |-> e.tags]
    ELSE NoEv

\* datastore_tag_item
TagItem(item_id, tag_id) ==
    /\ lock = "free"
    /\ localOps < MaxLocalOps
    /\ \E now \in Now :
        /\ clock' = now
        /\ LET st == tag_item([tags |-> tags, item_tags |-> item_tags],
                              item_id, tag_id, now)
           IN  /\ tags' = st.tags
               /\ item_tags' = st.item_tags
        /\ ev' = [op |-> "tagItem", item_id |-> item_id, tag_id |-> tag_id,
                  already_exists |-> tag_item_exists(item_tags, item_id, tag_id),
                  now |-> now, tags |-> tags, item_tags |-> item_tags,
                  prev |-> LastTagItem(ev)]
    /\ localOps' = localOps + 1
    /\ UNCHANGED <<lock, items, nextItemId, address_tags, apiKey, serverUrl,
                   lastSyncTime, tasks, started, mobile>>

\* datastore_untag_item
UntagItem(item_id, tag_id) ==
    /\ lock = "free"
    /\ localOps < MaxLocalOps
    /\ item_tags' = untag_item(item_tags, item_id, tag_id)
    /\ ev' = [op |-> "untagItem", item_id |-> item_id, tag_id |-> tag_id,
              ok |-> tag_item_exists(item_tags, item_id, tag_id), tags |-> tags]
    /\ localOps' = localOps + 1
    /\ UNCHANGED <<clock, lock, items, nextItemId, tags, address_tags, apiKey,
                   serverUrl, lastSyncTime, tasks, started, mobile>>

\* datastore_tag_address
TagAddress(address_id, tag_id) ==
    /\ lock = "free"
    /\ localOps < MaxLocalOps
    /\ \E now \in Now :
        /\ clock' = now
        /\ LET st == tag_address([tags |-> tags, address_tags |-> address_tags],
                                 address_id, tag_id, now)
           IN  /\ tags' = st.tags
               /\ address_tags' = st.address_tags
        /\ ev' = [op |-> "tagAddress", address_id |-> address_id,
                  tag_id |-> tag_id,
                  already_exists |->
                      \E l \in address_tags :
                          l.addressId = address_id /\ l.tagId = tag_id,
                  now |-> now, tags |-> tags]
    /\ localOps' = localOps + 1
    /\ UNCHANGED <<lock, items, nextItemId, item_tags, apiKey, serverUrl,
                   lastSyncTime, tasks, started, mobile>>

\* ------------------------------------------------------------ sync engine
Matches_None(its, server_id) == {}

\* the live rows merge_server_item's SELECT ... WHERE syncId = ?1 AND
\* deletedAt = 0 can return
Matches(its, server_id) ==
    {i \in DOMAIN its : its[i].syncId = server_id /\ its[i].deletedAt = 0}

\* ItemOptions merge_server_item builds for the insert
InsertOptions(server_item) ==
    [content |-> server_item.content,
     metadata |-> IF server_item.metadata = None THEN None
                  ELSE ToJsonString(server_item.metadata),
     sync_id |-> server_item.id, sync_source |-> "server"]

\* ItemOptions merge_server_item builds for the overwrite
OverwriteOptions(server_item) ==
    [content |-> server_item.content,
     metadata |-> IF server_item.metadata = None THEN None
                  ELSE ToJsonString(server_item.metadata),
     sync_id |-> None, sync_source |-> None]

\* merge_server_item, no live match: add_item, then the timestamp UPDATE
MergeInsert(its, new_id, server_item, now_ts) ==
    [add_item(its, new_id, server_item.item_type, InsertOptions(server_item), now_ts)
        EXCEPT ![new_id] =
            [@ EXCEPT !.updatedAt = from_iso_string(server_item.updated_at),
                      !.syncedAt = now_ts]]

\* merge_server_item, server newer: update_item, then the timestamp UPDATE
MergeOverwrite(its, local_id, server_item, now_ts) ==
    [update_item(its, local_id, OverwriteOptions(server_item), now_ts)
        EXCEPT ![local_id] =
            [@ EXCEPT !.updatedAt = from_iso_string(server_item.updated_at),
                      !.syncedAt = now_ts]]

MergeOutcome_TieToServer(local_updated_at, server_updated_at) ==
    IF server_updated_at >= local_updated_at THEN "pulled"
    ELSE "conflict"

\* the three-way comparison of merge_server_item on a matched row
MergeOutcome(local_updated_at, server_updated_at) ==
    IF server_updated_at > local_updated_at THEN "pulled"
    ELSE IF local_updated_at > server_updated_at THEN "conflict"
    ELSE "skipped"

\* rows selected by query_items_to_push
PushSelected(its, last_sync_time) ==
    IF last_sync_time > 0
    THEN {i \in DOMAIN its :
            /\ its[i].deletedAt = 0
            /\ \/ its[i].syncSource = ""
               \/ (its[i].syncedAt > 0 /\ its[i].updatedAt > its[i].syncedAt)}
    ELSE {i \in DOMAIN its : its[i].deletedAt = 0 /\ its[i].syncSource = ""}

PushData_LocalId(its, i) == [id |-> i, content |-> its[i].content, sync_id |-> i]

\* ItemPushData: the local id, and the content and sync_id fields of the body
PushData(its, i) ==
    [id |-> i, content |-> its[i].content,
     sync_id |-> IF its[i].syncId = "" THEN i ELSE its[i].syncId]

RECURSIVE InRowOrder(_, _)
InRowOrder(its, ids) ==
    IF ids = {} THEN <<>>
    ELSE LET i == CHOOSE x \in ids : \A y \in ids : RowId(x) <= RowId(y)
         IN  <<PushData(its, i)>> \o InRowOrder(its, ids \ {i})

query_items_to_push(its, last_sync_time) ==
    InRowOrder(its, PushSelected(its, last_sync_time))

\* rows counted by the pending_count query of get_sync_status
Pending(its) ==
    {i \in DOMAIN its :
        /\ its[i].deletedAt = 0
        /\ \/ its[i].syncSource = ""
           \/ (its[i].syncedAt > 0 /\ its[i].updatedAt > its[i].syncedAt)}

pending_count == Cardinality(Pending(items))

\* get_sync_config, server_url: the stored setting, else $SYNC_SERVER_URL
\* (taken as unset), else DEFAULT_SERVER_URL
DEFAULT_SERVER_URL == "https://peek-node.up.railway.app"
SYNC_SERVER_URL == None
config_server_url_NoDefault == IF serverUrl # None THEN serverUrl ELSE ""

config_server_url ==
    IF serverUrl # None THEN serverUrl
    ELSE IF SYNC_SERVER_URL # None THEN SYNC_SERVER_URL
    ELSE DEFAULT_SERVER_URL

\* SyncStatus.configured
configured == config_server_url # "" /\ apiKey # ""

\* sync_status -> get_sync_status: reads the config and counts; writes nothing
SyncStatus ==
    /\ lock = "free"
    /\ ev' = [op |-> "syncStatus",
              status |-> [configured |-> configured,
                          last_sync_time |-> lastSyncTime,
                          pending_count |-> pending_count],
              serverUrl |-> serverUrl, api_key |-> apiKey,
              items |-> items, last_sync_time |-> lastSyncTime]
    /\ UNCHANGED <<clock, lock, items, nextItemId, tags, item_tags, address_tags,
                   apiKey, serverUrl, lastSyncTime, tasks, started, localOps, mobile>>

NotConfigured_Never(api_key) == FALSE

\* the fail-fast test of sync_all and of the sync commands
NotConfigured(api_key) == api_key = ""

\* server_fetch builds the request from server_url + path: without a base URL
\* reqwest has no request to send and send() returns Err without any I/O
RequestBuilt(server_url) == server_url # ""

\* why server_fetch returned Err after a request was sent: a transient failure
\* (network error, error status, unparsable body) or a version mismatch
FailReasons == {"network", "version"}

CanStart(p) ==
    /\ tasks[p].pc = "idle"
    /\ lock = "free"
    /\ started < MaxSyncs

\* what a finished command hands back: Err, or the counts of SyncResult /
\* PullResult / PushResult
Returned(kind, result, t, last_sync_time) ==
    [op |-> "returned", kind |-> kind, result |-> result, pulled |-> t.pulled,
     conflicts |-> t.conflicts, pushed |-> t.pushed, failed |-> t.failed,
     selected |-> t.selected, last_sync_time |-> last_sync_time,
     start_time |-> t.start_time, lst |-> t.lst,
     pending_at_start |-> t.pending_at_start, merged |-> t.merged,
     version_mismatch |-> t.version_mismatch, failed_ids |-> t.failed_ids,
     reason |-> "none"]

\* sync_all up to the GET of pull_from_server: config and start time are read
\* under the lock; no API key -> Err before any request; no server URL -> the
\* GET cannot be built and pull returns Err
StartFull(p) ==
    /\ CanStart(p)
    /\ \E now \in Now :
        /\ clock' = now
        /\ IF NotConfigured(apiKey) \/ ~RequestBuilt(config_server_url)
           THEN /\ ev' = [op |-> "startFull", result |-> "err",
                          api_key |-> apiKey, server_url |-> config_server_url,
                          items |-> items, last_sync_time |-> lastSyncTime]
                /\ UNCHANGED <<tasks, started>>
           ELSE /\ tasks' = [tasks EXCEPT ![p] =
                      [IdleTask EXCEPT !.pc = "pull_wait", !.kind = "full",
                                       !.since = lastSyncTime,
                                       !.lst = lastSyncTime,
                                       !.start_time = now,
                                       !.pending_at_start = Pending(items)]]
                /\ started' = started + 1
                /\ ev' = [op |-> "startFull", result |-> "started",
                          api_key |-> apiKey, server_url |-> config_server_url,
                          items |-> items, last_sync_time |-> lastSyncTime]
    /\ UNCHANGED <<lock, items, nextItemId, tags, item_tags, apiKey, serverUrl, address_tags,
                   lastSyncTime, localOps, mobile>>

\* sync_pull command up to the GET of pull_from_server
StartPull(p, since) ==
    /\ CanStart(p)
    /\ IF NotConfigured(apiKey) \/ ~RequestBuilt(config_server_url)
       THEN /\ ev' = Returned("pull", "err", IdleTask, lastSyncTime)
            /\ UNCHANGED <<tasks, started>>
       ELSE /\ tasks' = [tasks EXCEPT ![p] =
                  [IdleTask EXCEPT !.pc = "pull_wait", !.kind = "pull",
                                   !.since = since]]
            /\ started' = started + 1
            /\ ev' = [op |-> "startPull"]
    /\ UNCHANGED <<clock, lock, items, nextItemId, tags, item_tags, apiKey, serverUrl, address_tags,
                   lastSyncTime, localOps, mobile>>

\* sync_push command up to the first step of push_to_server
StartPush(p, last_sync_time) ==
    /\ CanStart(p)
    /\ IF NotConfigured(apiKey)
       THEN /\ ev' = Returned("push", "err", IdleTask, lastSyncTime)
            /\ UNCHANGED <<tasks, started>>
       ELSE /\ tasks' = [tasks EXCEPT ![p] =
                  [IdleTask EXCEPT !.pc = "push_read", !.kind = "push",
                                   !.lst = last_sync_time]]
            /\ started' = started + 1
            /\ ev' = [op |-> "startPush"]
    /\ UNCHANGED <<clock, lock, items, nextItemId, tags, item_tags, apiKey, serverUrl, address_tags,
                   lastSyncTime, localOps, mobile>>

PullErrPc_GoOn(kind) == IF kind = "full" THEN "push_read" ELSE "idle"

\* where a command stands after pull_from_server returned Err: `.await?` in
\* sync_all and the Err arm of sync_pull both return to the caller
PullErrPc(kind) == "idle"

\* server_fetch returns Err (network error, non-success status, version
\* mismatch, unparsable body): `?` propagates it out of pull and of sync_all
PullFail(p, reason) ==
    /\ tasks[p].pc = "pull_wait"
    /\ tasks' = [tasks EXCEPT ![p] =
          IF PullErrPc(tasks[p].kind) = "idle" THEN IdleTask
          ELSE [@ EXCEPT !.pc = PullErrPc(tasks[p].kind)]]
    /\ ev' = [Returned(tasks[p].kind, "err", tasks[p], lastSyncTime)
                 EXCEPT !.op = "pullFail", !.reason = reason]
    /\ UNCHANGED <<clock, lock, items, nextItemId, tags, item_tags, apiKey, serverUrl, address_tags,
                   lastSyncTime, started, localOps, mobile>>

\* the response arrives with n items; the store lock is taken for the merge
PullRecv(p, n) ==
    /\ tasks[p].pc = "pull_wait"
    /\ lock = "free"
    /\ lock' = p
    /\ tasks' = [tasks EXCEPT ![p].pc = "merge", ![p].remaining = n]
    /\ ev' = [op |-> "pullRecv"]
    /\ UNCHANGED <<clock, items, nextItemId, tags, item_tags, apiKey, serverUrl, address_tags,
                   lastSyncTime, started, localOps, mobile>>

\* one iteration of the merge loop of pull_from_server: merge_server_item on
\* the next item of the response, under the lock; an Err is logged and skipped
MergeStep(p, server_item) ==
    /\ tasks[p].pc = "merge"
    /\ lock = p
    /\ tasks[p].remaining > 0
    /\ \E now \in Now :
        /\ clock' = now
        /\ IF Matches(items, server_item.id) = {}
           THEN IF add_item_ok(server_item.item_type)
                THEN /\ nextItemId <= MaxItems
                     /\ LET new_id == generate_id(nextItemId)
                            st == sync_tags_to_item(
                                      [tags |-> tags, item_tags |-> item_tags],
                                      new_id, server_item.tags, now)
                        IN  /\ items' = MergeInsert(items, new_id, server_item, now)
                            /\ tags' = st.tags
                            /\ item_tags' = st.item_tags
                            /\ ev' = [op |-> "merge", task |-> p,
                                      outcome |-> "pulled", matched |-> FALSE,
                                      id |-> new_id, remote |-> server_item,
                                      at |-> now,
                                      rowsBefore |-> DOMAIN items,
                                      liveBefore |-> Live,
                                      pulledBefore |-> tasks[p].pulled,
                                      conflictsBefore |-> tasks[p].conflicts]
                     /\ nextItemId' = nextItemId + 1
                     /\ tasks' = [tasks EXCEPT
                           ![p].remaining = @ - 1,
                           ![p].pulled = @ + 1,
                           ![p].merged = Append(@,
                               [id |-> generate_id(nextItemId),
                                outcome |-> "pulled"])]
                ELSE /\ ev' = [op |-> "merge", task |-> p, outcome |-> "error",
                               matched |-> FALSE, id |-> "",
                               remote |-> server_item, at |-> now,
                               rowsBefore |-> DOMAIN items,
                               liveBefore |-> Live,
                               pulledBefore |-> tasks[p].pulled,
                               conflictsBefore |-> tasks[p].conflicts]
                     /\ tasks' = [tasks EXCEPT
                           ![p].remaining = @ - 1,
                           ![p].merged = Append(@,
                               [id |-> "", outcome |-> "error"])]
                     /\ UNCHANGED <<items, nextItemId, tags, item_tags>>
           ELSE \E local_id \in Matches(items, server_item.id) :
                LET outcome == MergeOutcome(items[local_id].updatedAt,
                                   from_iso_string(server_item.updated_at))
                    st == sync_tags_to_item(
                              [tags |-> tags, item_tags |-> item_tags],
                              local_id, server_item.tags, now)
                IN  /\ ev' = [op |-> "merge", task |-> p, outcome |-> outcome,
                              matched |-> TRUE, id |-> local_id,
                              remote |-> server_item, at |-> now,
                              rowsBefore |-> DOMAIN items,
                              liveBefore |-> Live,
                              pulledBefore |-> tasks[p].pulled,
                              conflictsBefore |-> tasks[p].conflicts,
                              before |-> IF outcome = "pulled"
                                         THEN [updatedAt |-> items[local_id].updatedAt]
                                         ELSE items[local_id],
                              tagsBefore |->
                                  IF outcome = "pulled" THEN {}
                                  ELSE get_item_tags(tags, item_tags, local_id)]
                    /\ IF outcome = "pulled"
                       THEN /\ items' = MergeOverwrite(items, local_id,
                                                       server_item, now)
                            /\ tags' = st.tags
                            /\ item_tags' = st.item_tags
                       ELSE UNCHANGED <<items, tags, item_tags>>
                    /\ tasks' = [tasks EXCEPT
                          ![p].remaining = @ - 1,
                          ![p].pulled = IF outcome = "pulled" THEN @ + 1 ELSE @,
                          ![p].conflicts = IF outcome = "conflict" THEN @ + 1 ELSE @,
                          ![p].merged = Append(@, [id |-> local_id,
                                                   outcome |-> outcome])]
                    /\ UNCHANGED nextItemId
    /\ UNCHANGED <<lock, apiKey, serverUrl, address_tags, lastSyncTime, started, localOps, mobile>>

\* end of the merge loop: the lock is dropped and pull returns Ok; sync_all
\* goes on to push_to_server
MergeDone(p) ==
    /\ tasks[p].pc = "merge"
    /\ lock = p
    /\ tasks[p].remaining = 0
    /\ lock' = "free"
    /\ IF tasks[p].kind = "full"
       THEN /\ tasks' = [tasks EXCEPT ![p].pc = "push_read"]
            /\ ev' = [op |-> "mergeDone"]
       ELSE /\ tasks' = [tasks EXCEPT ![p] = IdleTask]
            /\ ev' = Returned("pull", "ok", tasks[p], lastSyncTime)
    /\ UNCHANGED <<clock, items, nextItemId, tags, item_tags, apiKey, serverUrl, address_tags,
                   lastSyncTime, started, localOps, mobile>>

LockAfterRead_Held(p) == p

\* the owner of the store lock once phase 1 of push_to_server is over: the
\* guard is dropped at the end of the block, before the first POST
LockAfterRead(p) == "free"

\* push_to_server phase 1: query_items_to_push under the lock
PushRead(p) ==
    /\ tasks[p].pc = "push_read"
    /\ lock = "free"
    /\ lock' = LockAfterRead(p)
    /\ LET q == query_items_to_push(items, tasks[p].lst)
       IN  /\ tasks' = [tasks EXCEPT ![p].pc = "push_loop", ![p].queue = q,
                                     ![p].selected = Len(q)]
           /\ ev' = [op |-> "pushRead", task |-> p,
                     ids |-> {q[k].id : k \in 1 .. Len(q)},
                     last_sync_time |-> tasks[p].lst]
    /\ UNCHANGED <<clock, items, nextItemId, tags, item_tags, apiKey, serverUrl, address_tags,
                   lastSyncTime, started, localOps, mobile>>

\* the UPDATE of push phase 3; it names the row by id only
CommitPush(its, id, server_id, now_ts) ==
    IF id \in DOMAIN its
    THEN [its EXCEPT ![id] = [@ EXCEPT !.syncId = server_id,
                                       !.syncSource = "server",
                                       !.syncedAt = now_ts]]
    ELSE its

\* POST /items for the next item succeeded: commit the server's id under the lock
PostOk(p, server_id) ==
    /\ tasks[p].pc = "push_loop"
    /\ tasks[p].queue # <<>>
    /\ RequestBuilt(config_server_url)
    /\ lock = "free"
    /\ \E now \in Now :
        /\ clock' = now
        /\ items' = CommitPush(items, Head(tasks[p].queue).id, server_id, now)
        /\ ev' = [op |-> "postOk", task |-> p, id |-> Head(tasks[p].queue).id,
                  server_id |-> server_id, at |-> now,
                  sent |-> Head(tasks[p].queue),
                  pushedBefore |-> tasks[p].pushed]
    /\ tasks' = [tasks EXCEPT ![p].queue = Tail(@), ![p].pushed = @ + 1]
    /\ UNCHANGED <<lock, nextItemId, tags, item_tags, apiKey, serverUrl, address_tags, lastSyncTime,
                   started, localOps, mobile>>

AfterPostErr_Abort(queue) == <<>>

\* the Err arm of the push loop: nothing but the count, and the loop goes on
\* with the items after this one
AfterPostErr(queue) == Tail(queue)

\* POST /items for the next item failed: counted, the loop goes on
PostFail(p, reason) ==
    /\ tasks[p].pc = "push_loop"
    /\ tasks[p].queue # <<>>
    /\ reason = "version" => RequestBuilt(config_server_url)
    /\ tasks' = [tasks EXCEPT
          ![p].queue = AfterPostErr(@),
          ![p].failed = @ + 1,
          ![p].version_mismatch = @ \/ reason = "version",
          ![p].failed_ids = @ \cup {Head(tasks[p].queue).id}]
    /\ ev' = [op |-> "postFail", task |-> p, id |-> Head(tasks[p].queue).id,
              reason |-> reason,
              row |-> items[Head(tasks[p].queue).id],
              rest |-> Tail(tasks[p].queue),
              failedBefore |-> tasks[p].failed]
    /\ UNCHANGED <<clock, lock, items, nextItemId, tags, item_tags, apiKey, serverUrl, address_tags,
                   lastSyncTime, started, localOps, mobile>>

NewWatermark_Completion(t) == clock

\* set_setting(.., "lastSyncTime", start_time) at the end of sync_all
NewWatermark(t) == t.start_time

WritesWatermark_Always(kind) == TRUE

\* the only write of lastSyncTime by the sync engine is in sync_all;
\* push_to_server and pull_from_server read their watermark as a parameter
WritesWatermark(kind) == kind = "full"

\* end of the push loop: push returns Ok; sync_all then writes lastSyncTime =
\* start_time under the lock and returns Ok
PushDone(p) ==
    /\ tasks[p].pc = "push_loop"
    /\ tasks[p].queue = <<>>
    /\ lock = "free"
    /\ lastSyncTime' = IF WritesWatermark(tasks[p].kind) THEN NewWatermark(tasks[p])
                       ELSE lastSyncTime
    /\ tasks' = [tasks EXCEPT ![p] = IdleTask]
    /\ ev' = Returned(tasks[p].kind, "ok", tasks[p], lastSyncTime')
    /\ UNCHANGED <<clock, lock, items, nextItemId, tags, item_tags, apiKey, serverUrl, address_tags,
                   started, localOps, mobile>>

Next ==
    \/ \E ty \in LocalTypes, o \in LocalOptions : AddItem(ty, o)
    \/ \E i \in DOMAIN items, o \in LocalOptions : UpdateItem(i, o)
    \/ \E i \in DOMAIN items : DeleteItem(i)
    \/ \E k \in {"", "key"}, w \in {0, lastSyncTime} : SyncSetConfig("", k, w)
    \/ \E p \in Tasks : StartFull(p)
    \/ \E p \in Tasks, since \in {0, lastSyncTime} : StartPull(p, since)
    \/ \E p \in Tasks, w \in {0, lastSyncTime} : StartPush(p, w)
    \/ \E p \in Tasks, r \in FailReasons : PullFail(p, r)
    \/ \E p \in Tasks, n \in 0 .. MaxResp : PullRecv(p, n)
    \/ \E p \in Tasks, si \in ServerItem : MergeStep(p, si)
    \/ \E p \in Tasks : MergeDone(p)
    \/ \E p \in Tasks : PushRead(p)
    \/ \E p \in Tasks, sid \in ServerIds : PostOk(p, sid)
    \/ \E p \in Tasks, r \in FailReasons : PostFail(p, r)
    \/ \E p \in Tasks : PushDone(p)

Spec == Init /\ [][Next]_vars

\* Runs of two sync commands (push, pull or full, in any order) on a
\* configured store holding one item that was never synced; two commands may
\* start, so the counter of started commands begins two below its cap.
InitPushPull ==
    /\ clock = 1
    /\ lock = "free"
    /\ items = [i \in {generate_id(1)} |-> LocalOnlyRow]
    /\ nextItemId = 2
    /\ tags = <<>>
    /\ item_tags = {}
    /\ address_tags = {}
    /\ mobile = MobileIdle
    /\ apiKey = "key"
    /\ serverUrl = "https://peek"
    /\ lastSyncTime \in {0, 1}
    /\ tasks = [p \in Tasks |-> IdleTask]
    /\ started = MaxSyncs - 2
    /\ localOps = 0
    /\ ev = NoEv

NextPushPull ==
    \/ \E i \in DOMAIN items, o \in LocalOptions : UpdateItem(i, o)
    \/ \E i \in DOMAIN items : DeleteItem(i)
    \/ \E p \in Tasks : StartFull(p)
    \/ \E p \in Tasks, since \in {0, lastSyncTime} : StartPull(p, since)
    \/ \E p \in Tasks, w \in {0, lastSyncTime} : StartPush(p, w)
    \/ \E p \in Tasks, r \in FailReasons : PullFail(p, r)
    \/ \E p \in Tasks, n \in 0 .. MaxResp : PullRecv(p, n)
    \/ \E p \in Tasks, si \in ServerItem : MergeStep(p, si)
    \/ \E p \in Tasks : MergeDone(p)
    \/ \E p \in Tasks : PushRead(p)
    \/ \E p \in Tasks, sid \in ServerIds : PostOk(p, sid)
    \/ \E p \in Tasks, r \in FailReasons : PostFail(p, r)
    \/ \E p \in Tasks : PushDone(p)

SpecPushPull == InitPushPull /\ [][NextPushPull]_vars

\* Runs in which the store is only changed locally before a full sync starts,
\* and the server answers every request of the sync.
NextQuiet ==
    \/ /\ started = 0
       /\ \/ \E ty \in LocalTypes, o \in LocalOptions : AddItem(ty, o)
          \/ \E i \in DOMAIN items, o \in LocalOptions : UpdateItem(i, o)
          \/ \E i \in DOMAIN items : DeleteItem(i)
    \/ \E p \in Tasks : StartFull(p)
    \/ \E p \in Tasks, n \in 0 .. MaxResp : PullRecv(p, n)
    \/ \E p \in Tasks, si \in ServerItem : MergeStep(p, si)
    \/ \E p \in Tasks : MergeDone(p)
    \/ \E p \in Tasks : PushRead(p)
    \/ \E p \in Tasks, sid \in ServerIds : PostOk(p, sid)
    \/ \E p \in Tasks : PushDone(p)

SpecQuiet == Init /\ [][NextQuiet]_vars

\* Runs of the local command surface of the store (items, tags, links), with
\* one pull in between; MaxStoreOps local commands may run, so the counter of
\* local commands begins that far below its cap.
MaxStoreOps == 2
StoreTypes == {"url", "text", "tagset", "image", "note", "bogus"}
StoreOptions == LocalOptions \cup {[NoOptions EXCEPT !.sync_id = "s2"]}
AddressIds == {"addr_1", "addr_2"}
\* ids the item commands are called with: those of the rows, and one of no row
StoreItemIds == DOMAIN items \cup {generate_id(MaxItems + 1)}
StoreServerItem ==
    { [id |-> i, item_type |-> "tagset", content |-> "c2", tags |-> tg,
       metadata |-> None, updated_at |-> u] :
        i \in ServerIds, tg \in {<<>>, <<"x">>, <<" x">>}, u \in {2, MaxTime + 1} }

InitStore ==
    /\ clock = 1
    /\ lock = "free"
    /\ \E st \in InitStores :
        /\ items = st.items
        /\ nextItemId = st.nextItemId
        /\ tags = st.tags
        /\ item_tags = st.item_tags
    /\ address_tags = {}
    /\ mobile = MobileIdle
    /\ apiKey = "key"
    /\ serverUrl = "https://peek"
    /\ lastSyncTime = 0
    /\ tasks = [p \in Tasks |-> IdleTask]
    /\ started = 0
    /\ localOps = MaxLocalOps - MaxStoreOps
    /\ ev = NoEv

NextStore ==
    \/ \E ty \in StoreTypes, o \in {NoOptions, [NoOptions EXCEPT !.content = "c1"]} :
          AddItem(ty, o)
    \/ \E i \in StoreItemIds, o \in StoreOptions : UpdateItem(i, o)
    \/ \E i \in StoreItemIds : DeleteItem(i)
    \/ \E i \in StoreItemIds : HardDeleteItem(i)
    \/ \E n \in TagNames : GetOrCreateTag(n)
    \/ \E i \in DOMAIN items, t \in DOMAIN tags : TagItem(i, t)
    \/ \E i \in DOMAIN items, t \in DOMAIN tags : UntagItem(i, t)
    \/ \E a \in AddressIds, t \in DOMAIN tags : TagAddress(a, t)
    \/ \E p \in Tasks : StartPull(p, 0)
    \/ \E p \in Tasks, n \in 0 .. MaxResp : PullRecv(p, n)
    \/ \E p \in Tasks, si \in StoreServerItem : MergeStep(p, si)
    \/ \E p \in Tasks : MergeDone(p)

SpecStore == InitStore /\ [][NextStore]_vars

\* Runs of the configuration and status commands on every stored
\* configuration: URL absent, empty or set; key absent or set.
InitStatus ==
    /\ clock = 1
    /\ lock = "free"
    /\ \E st \in InitStores :
        /\ items = st.items
        /\ nextItemId = st.nextItemId
        /\ tags = st.tags
        /\ item_tags = st.item_tags
    /\ address_tags = {}
    /\ mobile = MobileIdle
    /\ apiKey \in {"", "key"}
    /\ serverUrl \in {None, "", "https://peek"}
    /\ lastSyncTime \in {0, 1}
    /\ (apiKey = "" \/ serverUrl = "")
          => /\ lastSyncTime = 0
             /\ \A i \in DOMAIN items : items[i].syncId = ""
    /\ tasks = [p \in Tasks |-> IdleTask]
    /\ started = 0
    /\ localOps = 0
    /\ ev = NoEv

NextStatus ==
    \/ \E ty \in LocalTypes, o \in LocalOptions : AddItem(ty, o)
    \/ \E i \in DOMAIN items, o \in LocalOptions : UpdateItem(i, o)
    \/ \E i \in DOMAIN items : DeleteItem(i)
    \/ \E u \in {"", "https://peek"}, k \in {"", "key"}, w \in {0, lastSyncTime} :
          SyncSetConfig(u, k, w)
    \/ SyncStatus

SpecStatus == InitStatus /\ [][NextStatus]_vars

\* calculate_frecency on its own: two frequencies and two times of last use
\* are drawn, and the function is applied to them at one reading of the clock.
\* the clock reads 24 days (ms)
FrecencyNow == 24 * MsPerDay
Frequencies == {1, 2, 3, 100}
\* time since last use: none, 1 ms, a day, one week, two weeks, 24 days
Elapsed == {0, 1, MsPerDay, 7 * MsPerDay, 14 * MsPerDay, 24 * MsPerDay}

InitFrecency ==
    /\ clock = FrecencyNow
    /\ lock = "free"
    /\ items = <<>>
    /\ nextItemId = 1
    /\ tags = <<>>
    /\ item_tags = {}
    /\ address_tags = {}
    /\ mobile = MobileIdle
    /\ apiKey = ""
    /\ serverUrl = None
    /\ lastSyncTime = 0
    /\ tasks = [p \in Tasks |-> IdleTask]
    /\ started = 0
    /\ localOps = 0
    /\ \E f1 \in Frequencies, f2 \in Frequencies, d1 \in Elapsed, d2 \in Elapsed :
          ev = [op |-> "frecencyArgs", frequency |-> f1, frequency2 |-> f2,
                last_used_at |-> clock - d1, last_used_at2 |-> clock - d2]

CalculateFrecency ==
    /\ ev.op = "frecencyArgs"
    /\ ev' = [op |-> "calculate_frecency", current_time |-> clock,
              frequency |-> ev.frequency, frequency2 |-> ev.frequency2,
              last_used_at |-> ev.last_used_at,
              last_used_at2 |-> ev.last_used_at2,
              score |-> calculate_frecency(ev.frequency, ev.last_used_at, clock),
              score_later |-> calculate_frecency(ev.frequency, ev.last_used_at2,
                                               clock),
              score_more |-> calculate_frecency(ev.frequency2, ev.last_used_at,
                                              clock)]
    /\ UNCHANGED <<clock, lock, items, nextItemId, tags, item_tags, address_tags,
                   apiKey, serverUrl, lastSyncTime, tasks, started, localOps, mobile>>

NextFrecency == CalculateFrecency

SpecFrecency == InitFrecency /\ [][NextFrecency]_vars

\* ------------------------------------------------------------- properties
\* sync states of a row
LOCAL_ONLY(r) == r.syncId = ""
SYNCED(r) == r.syncId # "" /\ r.syncSource = "server" /\ r.updatedAt <= r.syncedAt
LOCAL_DIRTY(r) == r.syncId # "" /\ r.updatedAt > r.syncedAt

\* what a server item carries, in the store's terms
RemoteTags(si) == {si.tags[k] : k \in 1 .. Len(si.tags)}
RemoteMetadata(si) == IF si.metadata = None THEN "{}" ELSE ToJsonString(si.metadata)
RemoteUpdatedAt(si) == from_iso_string(si.updated_at)

\* C1: no two non-deleted local items carry the same non-empty syncId, after
\* any sequence of addItem, updateItem, deleteItem, pull, push and full sync,
\* with any server responses.
C1_UniqueLiveSyncId ==
    \A i \in Live : \A j \in Live :
        (i # j /\ items[i].syncId # "") => items[i].syncId # items[j].syncId

\* C2: pull wins.  When the merge is given a server item whose id is the
\* syncId of a live local row and whose updatedAt is greater than the row's,
\* the row afterwards has the server item's content, metadata and tag set,
\* updatedAt = the server's updatedAt and syncedAt = the merge time, and the
\* item is counted once in pulled (and not in conflicts).
C2_PullWins ==
    (ev.op = "merge" /\ ev.matched
        /\ RemoteUpdatedAt(ev.remote) > ev.before.updatedAt)
    => /\ items[ev.id].content = ev.remote.content
       /\ items[ev.id].metadata = RemoteMetadata(ev.remote)
       /\ get_item_tags(tags, item_tags, ev.id) = RemoteTags(ev.remote)
       /\ items[ev.id].updatedAt = RemoteUpdatedAt(ev.remote)
       /\ items[ev.id].syncedAt = ev.at
       /\ tasks[ev.task].pulled = ev.pulledBefore + 1
       /\ tasks[ev.task].conflicts = ev.conflictsBefore

\* C3: remote not newer.  When the merge is given a server item whose id is
\* the syncId of a live local row and whose updatedAt is not greater than the
\* row's, the row (content, metadata, updatedAt, syncedAt and every other
\* column) and its tag set are unchanged; it is never counted in pulled; it is
\* counted once in conflicts exactly when the local updatedAt is strictly
\* greater, and in neither count when the two are equal.
C3_RemoteNotNewer ==
    (ev.op = "merge" /\ ev.matched
        /\ RemoteUpdatedAt(ev.remote) <= ev.before.updatedAt)
    => /\ items[ev.id] = ev.before
       /\ DOMAIN items = ev.rowsBefore
       /\ get_item_tags(tags, item_tags, ev.id) = ev.tagsBefore
       /\ tasks[ev.task].pulled = ev.pulledBefore
       /\ tasks[ev.task].conflicts =
            IF ev.before.updatedAt > RemoteUpdatedAt(ev.remote)
            THEN ev.conflictsBefore + 1 ELSE ev.conflictsBefore

\* C3 witness: a server item whose updatedAt equals the matched local row's,
\* and whose content and tags differ from the row's, has been merged and
\* counted neither as pulled nor as conflict
C3_Witness ==
    /\ ev.op = "merge" /\ ev.matched
    /\ RemoteUpdatedAt(ev.remote) = ev.before.updatedAt
    /\ ev.remote.content # items[ev.id].content
    /\ ev.tagsBefore # RemoteTags(ev.remote)
    /\ tasks[ev.task].conflicts = 0 /\ tasks[ev.task].pulled = 0

\* C4: new from server.  When the merge is given a server item whose id is the
\* syncId of no live local row, exactly one row is created; it is SYNCED
\* (syncId = the remote id, syncSource = "server", updatedAt <= syncedAt), is
\* not pending, and has exactly the remote tags; for every remote type.
C4_NewFromServer ==
    (ev.op = "merge" /\ ~ev.matched)
    => \E n \in DOMAIN items :
        /\ n \notin ev.rowsBefore
        /\ DOMAIN items = ev.rowsBefore \cup {n}
        /\ items[n].syncId = ev.remote.id
        /\ SYNCED(items[n])
        /\ items[n].type = ev.remote.item_type
        /\ n \notin Pending(items)
        /\ get_item_tags(tags, item_tags, n) = RemoteTags(ev.remote)
        /\ tasks[ev.task].pulled = ev.pulledBefore + 1

\* C5: push commit.  After the server accepted an item push submitted, the
\* row has syncId = the id the server returned, syncSource = "server" and
\* syncedAt = the commit time, so it is SYNCED (updatedAt <= syncedAt); the
\* item is counted once in pushed.
C5_PushCommit ==
    ev.op = "postOk"
    => /\ items[ev.id].syncId = ev.server_id
       /\ items[ev.id].syncSource = "server"
       /\ items[ev.id].syncedAt = ev.at
       /\ SYNCED(items[ev.id])
       /\ tasks[ev.task].pushed = ev.pushedBefore + 1

\* C6: after updateItem returned true on a SYNCED row the row is LOCAL_DIRTY:
\* updatedAt > syncedAt, it is counted by pending_count, and a push reading
\* the store now selects it under every watermark.
C6_UpdateMakesDirty ==
    (ev.op = "updateItem" /\ ev.ok /\ SYNCED(ev.before))
    => /\ LOCAL_DIRTY(items[ev.id])
       /\ ev.id \in Pending(items)
       /\ \A w \in 0 .. MaxTime : ev.id \in PushSelected(items, w)

\* C7: the set push submits is exactly the set of non-deleted rows that are
\* LOCAL_ONLY or LOCAL_DIRTY when push reads the store, for every watermark
\* including 0.
C7_PushSelection ==
    ev.op = "pushRead"
    => ev.ids = {i \in Live : LOCAL_ONLY(items[i]) \/ LOCAL_DIRTY(items[i])}

\* C8: a failed POST of one item is counted in failed and leaves the row
\* unchanged; the loop goes on with the items selected after it; push returns
\* Ok, and pushed + failed is the number of items selected.
C8_PushFailureIsolated ==
    /\ ev.op = "postFail"
       => /\ items[ev.id] = ev.row
          /\ tasks[ev.task].failed = ev.failedBefore + 1
          /\ tasks[ev.task].pc = "push_loop"
          /\ tasks[ev.task].queue = ev.rest
    /\ \A p \in Tasks :
          tasks[p].pc = "push_loop"
          => tasks[p].pushed + tasks[p].failed + Len(tasks[p].queue)
                = tasks[p].selected
    /\ (ev.op = "returned" /\ ev.kind \in {"push", "full"} /\ ev.selected > 0)
       => /\ ev.result = "ok"
          /\ ev.pushed + ev.failed = ev.selected

\* C8 witness: a push of two items returned Ok with one item failed and the
\* other pushed
C8_Witness ==
    /\ ev.op = "returned" /\ ev.kind = "push" /\ ev.result = "ok"
    /\ ev.selected = 2 /\ ev.failed = 1 /\ ev.pushed = 1

C10_PullFailureStopsSync ==
    (ev.op = "pullFail" /\ ev.kind = "full")
    => /\ ev.result = "err"
       /\ tasks = [p \in Tasks |-> IdleTask]
       /\ ev.selected = 0 /\ ev.pushed = 0 /\ ev.failed = 0
       /\ lastSyncTime = ev.last_sync_time
       /\ lock = "free"

\* C10 witness: the pull of a full sync has failed while a watermark was set
\* and a row was waiting to be pushed
C10_Witness ==
    /\ ev.op = "pullFail" /\ ev.kind = "full"
    /\ lastSyncTime > 0
    /\ PushSelected(items, lastSyncTime) # {}

\* rows a merge history reports with the given outcome
MergedAs(merged, outcome) ==
    {merged[k].id : k \in {j \in DOMAIN merged : merged[j].outcome = outcome}}

\* C11: pull is all-or-nothing.  Whenever a pull returns Ok (alone or as the
\* pull phase of a full sync), no item of the response failed to merge; a full
\* sync in which an item failed to merge never reaches its push phase and
\* never returns Ok (so never advances the watermark).
C11_PullAllOrNothing ==
    /\ (ev.op = "returned" /\ ev.kind \in {"pull", "full"} /\ ev.result = "ok")
       => MergedAs(ev.merged, "error") = {}
    /\ \A p \in Tasks :
          (tasks[p].kind = "full" /\ tasks[p].pc \in {"push_read", "push_loop"})
          => MergedAs(tasks[p].merged, "error") = {}

\* C12: a full sync started with an empty server URL or an empty credential
\* returns an error with no request issued (no sync task is left waiting for
\* a response), and every item and the watermark are as before.
C12_FailFast ==
    (ev.op = "startFull" /\ (ev.api_key = "" \/ ev.server_url = ""))
    => /\ ev.result = "err"
       /\ \A p \in Tasks : tasks[p].pc = "idle"
       /\ lock = "free"
       /\ items = ev.items
       /\ lastSyncTime = ev.last_sync_time

\* C12 witness: a full sync was started on a store with an item and a
\* credential but an empty server URL, and returned an error
C12_Witness ==
    /\ ev.op = "startFull" /\ ev.result = "err"
    /\ ev.server_url = "" /\ ev.api_key # ""
    /\ DOMAIN items # {}

\* C13: a version mismatch reported by the server in any response of a full
\* sync, to the GET of the pull or to any POST of the push, is fatal: the sync
\* returns an error and the watermark keeps the value it had at the start.
C13_VersionMismatchFatal ==
    /\ (ev.op = "pullFail" /\ ev.kind = "full" /\ ev.reason = "version")
       => (ev.result = "err" /\ lastSyncTime = ev.lst)
    /\ (ev.op = "returned" /\ ev.kind = "full" /\ ev.version_mismatch)
       => (ev.result = "err" /\ lastSyncTime = ev.lst)

\* C14: local wins on conflict.  When the push phase of a full sync reads the
\* store, every live item the pull phase of the same sync reported as conflict
\* is in the set it selects, for every watermark.
C14_ConflictRePushed ==
    (ev.op = "pushRead" /\ tasks[ev.task].kind = "full")
    => \A i \in MergedAs(tasks[ev.task].merged, "conflict") :
          i \in Live => i \in ev.ids

\* C15: with no local update or delete, an item the pull phase of a full sync
\* inserted or overwrote is not in the set the push phase of the same sync
\* selects, whatever the remote updated_at.
C15_PulledNotPushed ==
    (ev.op = "pushRead" /\ tasks[ev.task].kind = "full" /\ localOps = 0)
    => \A i \in MergedAs(tasks[ev.task].merged, "pulled") : i \notin ev.ids

\* C16: push-then-pull idempotence.  When the merge is given a server item
\* whose id is the syncId of a live local row (as it is for the server's copy
\* of an item pushed before), no row is created: the rows and the live rows
\* are the same as before the merge.
C16_PushThenPull ==
    (ev.op = "merge"
        /\ \E i \in ev.rowsBefore :
              items[i].deletedAt = 0 /\ items[i].syncId = ev.remote.id)
    => /\ DOMAIN items = ev.rowsBefore
       /\ Live = ev.liveBefore

\* C16 witness: the item the store started with, never synced, has been
\* pushed, and a pull has then merged the server's copy of it; it is still
\* the only row
C16_Witness ==
    /\ ev.op = "merge"
    /\ generate_id(1) \in Live
    /\ items[generate_id(1)].syncId = ev.remote.id
    /\ DOMAIN items = {generate_id(1)}
    /\ tasks[ev.task].kind = "pull"

C18_PendingCount ==
    /\ pending_count =
          Cardinality({i \in Live : LOCAL_ONLY(items[i]) \/ LOCAL_DIRTY(items[i])})
    /\ \A w \in 0 .. MaxTime :
          pending_count = Cardinality(PushSelected(items, w))

\* C19: end to end.  A full sync on a configured store, with no local change
\* during the sync and every request answered, returns pushed = the number of
\* rows that were pending at its start or reported as conflict by its pull;
\* afterwards pending_count = 0 and configured = true.
C19_EndToEnd ==
    (ev.op = "returned" /\ ev.kind = "full" /\ ev.result = "ok")
    => /\ ev.pushed = Cardinality(ev.pending_at_start
                                    \cup MergedAs(ev.merged, "conflict"))
       /\ pending_count = 0
       /\ configured

\* C20: while a request of pull, push or full sync is outstanding (the GET of
\* the pull, a POST of the push loop) the sync task does not own the store
\* lock, and the lock is free for a local command.
C20_NoLockAcrossRequest ==
    \A p \in Tasks :
        (tasks[p].pc = "pull_wait"
            \/ (tasks[p].pc = "push_loop" /\ tasks[p].queue # <<>>))
        => (lock # p /\ lock = "free")

\* C20 witness: updateItem has completed on a row while the POST of that row
\* was outstanding
C20_Witness ==
    /\ ev.op = "updateItem" /\ ev.ok
    /\ \E p \in Tasks :
          /\ tasks[p].pc = "push_loop" /\ tasks[p].queue # <<>>
          /\ Head(tasks[p].queue).id = ev.id

\* C21 as claimed: a status query returns a status value, changes nothing,
\* and reports configured = false whenever the server URL setting or the
\* API key has not been set.
C21_StatusUnsetNotConfigured ==
    ev.op = "syncStatus"
    => /\ ev.status.configured \in BOOLEAN
       /\ ev.status.pending_count \in Nat
       /\ items = ev.items /\ lastSyncTime = ev.last_sync_time
       /\ apiKey = ev.api_key /\ serverUrl = ev.serverUrl
       /\ (ev.serverUrl = None \/ ev.api_key = "") => ~ev.status.configured

\* C21 amended: a status query returns a status value and changes nothing;
\* it reports configured = false exactly when the API key is not set or the
\* stored server URL is empty; with the server URL setting absent the
\* built-in default URL stands in for it and a key alone gives configured =
\* true.
C21_StatusConfigured ==
    ev.op = "syncStatus"
    => /\ ev.status.configured \in BOOLEAN
       /\ ev.status.pending_count \in Nat
       /\ ev.status.last_sync_time = ev.last_sync_time
       /\ items = ev.items /\ lastSyncTime = ev.last_sync_time
       /\ apiKey = ev.api_key /\ serverUrl = ev.serverUrl
       /\ ~ev.status.configured <=> (ev.api_key = "" \/ ev.serverUrl = "")

\* C21 witness: a status query on a store with a pending item, an API key
\* and no server URL setting has reported configured = true
C21_Witness ==
    /\ ev.op = "syncStatus"
    /\ ev.serverUrl = None /\ ev.api_key = "key"
    /\ ev.status.configured
    /\ ev.status.pending_count > 0

\* C22: updateItem on an absent or soft-deleted item returns false and leaves
\* the rows as they were; on a live item it returns true, overwrites exactly
\* the supplied fields, sets updatedAt to the time of the call (also when no
\* field is supplied), and leaves syncId, syncSource and syncedAt alone.
C22_UpdateItem ==
    ev.op = "updateItem"
    => IF ~ev.found \/ ev.row.deletedAt # 0
       THEN /\ ~ev.ok
            /\ (ev.id \in DOMAIN items) = ev.found
            /\ ev.found => items[ev.id] = ev.row
       ELSE /\ ev.ok
            /\ items[ev.id].content =
                  (IF ev.options.content # None THEN ev.options.content
                   ELSE ev.row.content)
            /\ items[ev.id].metadata =
                  (IF ev.options.metadata # None THEN ev.options.metadata
                   ELSE ev.row.metadata)
            /\ items[ev.id].updatedAt = ev.now
            /\ items[ev.id].updatedAt >= ev.row.updatedAt
            /\ items[ev.id].syncId = ev.row.syncId
            /\ items[ev.id].syncSource = ev.row.syncSource
            /\ items[ev.id].syncedAt = ev.row.syncedAt
            /\ items[ev.id].type = ev.row.type
            /\ items[ev.id].deletedAt = 0

\* C23: soft delete.  deleteItem on a live item returns true and sets
\* deletedAt = updatedAt = the time of the call, leaving content, type, sync
\* fields, tags and links as they were; afterwards getItem finds nothing, a
\* default query omits the item and an include-deleted query returns it with
\* deletedAt # 0.  deleteItem on a deleted or absent item returns false and
\* changes no row.
C23_SoftDelete ==
    ev.op = "deleteItem"
    => /\ tags = ev.tags /\ item_tags = ev.item_tags
       /\ DOMAIN items = {i \in DOMAIN items : i # ev.id \/ ev.found}
       /\ IF ev.found /\ ev.row.deletedAt = 0
          THEN /\ ev.ok
               /\ items[ev.id] = [ev.row EXCEPT !.deletedAt = ev.now,
                                                !.updatedAt = ev.now]
               /\ items[ev.id].deletedAt # 0
               /\ get_item(items, ev.id) = {}
               /\ ev.id \notin query_items(items, FALSE)
               /\ ev.id \in query_items(items, TRUE)
          ELSE /\ ~ev.ok
               /\ ev.found => items[ev.id] = ev.row

\* C23 witness: a second deleteItem on an item that carries a tag link has
\* returned false, after the clock moved on from the first
C23_Witness ==
    /\ ev.op = "deleteItem" /\ ~ev.ok /\ ev.found
    /\ ev.row.deletedAt # 0 /\ ev.now > ev.row.deletedAt
    /\ \E l \in item_tags : l.itemId = ev.id

\* the item types of the specification
SpecTypes == {"url", "text", "tagset", "image"}

\* C24: addItem succeeds for each of the types url, text, tagset and image
\* and fails for every other type; a failed addItem adds no row and changes
\* none.
C24_AddItemTypes ==
    ev.op = "addItem"
    => /\ ev.ok = (ev.item_type \in SpecTypes)
       /\ ~ev.ok => items = ev.items

\* C25: round trip.  After addItem of a type of the specification, getItem
\* of the returned id yields a row with the type and content given,
\* deletedAt = 0 and an empty syncId; the row is LOCAL_ONLY and pending.
C25_AddThenGet ==
    (ev.op = "addItem" /\ ev.item_type \in SpecTypes)
    => /\ ev.ok
       /\ \E r \in get_item(items, ev.id) :
             /\ r.type = ev.item_type
             /\ r.content = ev.options.content
             /\ r.deletedAt = 0
             /\ r.syncId = ""
             /\ LOCAL_ONLY(r)
       /\ ev.id \in Pending(items)

\* C26: tagItem is idempotent.  A tagItem on a pair without a link reports
\* alreadyExists = false and raises the tag's frequency by one; when tagItem
\* is called twice in a row on the same item and tag, the second call reports
\* alreadyExists = true and leaves every tag (frequency, lastUsedAt,
\* frecencyScore) and every link as the first call left them, with exactly
\* one link for the pair and the frequency raised once over the two calls.
C26_TagItemIdempotent ==
    /\ (ev.op = "tagItem"
          /\ ~tag_item_exists(ev.item_tags, ev.item_id, ev.tag_id))
       => /\ ~ev.already_exists
          /\ tags[ev.tag_id].frequency = ev.tags[ev.tag_id].frequency + 1
    /\ (ev.op = "tagItem" /\ ev.prev.op = "tagItem"
          /\ ev.prev.item_id = ev.item_id /\ ev.prev.tag_id = ev.tag_id)
       => /\ ev.already_exists
          /\ tags = ev.tags
          /\ item_tags = ev.item_tags
          /\ Cardinality({l \in item_tags : l.itemId = ev.item_id
                                            /\ l.tagId = ev.tag_id}) = 1
          /\ ~ev.prev.already_exists
                => tags[ev.tag_id].frequency
                      = ev.prev.tags[ev.tag_id].frequency + 1

\* C26 witness: tagItem has been called twice in a row on a pair that had no
\* link, the second time at a later reading of the clock than the first
C26_Witness ==
    /\ ev.op = "tagItem" /\ ev.prev.op = "tagItem"
    /\ ev.prev.item_id = ev.item_id /\ ev.prev.tag_id = ev.tag_id
    /\ ~ev.prev.already_exists /\ ev.already_exists
    /\ ev.now > tags[ev.tag_id].lastUsedAt

\* C27: no step lowers Tag.frequency or removes a tag row: every tag keeps
\* its place and name with a frequency at least what it was, through
\* untagItem, deleteItem, hardDeleteItem and the tag replacement of a pull;
\* untagItem, deleteItem and hardDeleteItem leave the tag table as it was.
C27_FrequencyNeverDecreases ==
    [][ /\ Len(tags') >= Len(tags)
        /\ \A t \in DOMAIN tags :
              /\ tags'[t].name = tags[t].name
              /\ tags'[t].frequency >= tags[t].frequency
        /\ ev'.op \in {"untagItem", "deleteItem", "hardDeleteItem"}
              => tags' = tags ]_vars

\* C27 witness: the last link of a tag with frequency >= 1 has been removed
\* by untagItem or hardDeleteItem, and the tag row is still there
C27_Witness ==
    /\ ev.op \in {"untagItem", "hardDeleteItem"} /\ ev.ok
    /\ \E t \in DOMAIN tags :
          /\ tags[t].frequency >= 1
          /\ ~\E l \in item_tags \cup address_tags : l.tagId = t

\* C28: tag names are unique ignoring case: no two tag rows have names equal
\* ignoring case; a getOrCreateTag whose name (trimmed, ignoring case) is
\* that of an existing tag returns created = false and that tag's id and
\* adds no row; a tag it creates has frequency 0 and frecencyScore 0.
C28_TagNamesUnique ==
    /\ \A t, u \in DOMAIN tags :
          t # u => Lower(tags[t].name) # Lower(tags[u].name)
    /\ ev.op = "getOrCreateTag"
       => /\ (\E t \in DOMAIN ev.tags :
                 Lower(ev.tags[t].name) = Lower(Trim(ev.name)))
             => /\ ~ev.created
                /\ Lower(ev.tags[ev.id].name) = Lower(Trim(ev.name))
                /\ tags = ev.tags
          /\ ev.created
             => /\ tags[ev.id].frequency = 0
                /\ tags[ev.id].frecencyScore = 0

\* C29: right after a new link is created by tagItem or tagAddress, the
\* tag's lastUsedAt is the time of the attach, its frequency is one more than
\* before, and its frecencyScore is 10 * frequency.
C29_AttachFrecency ==
    (ev.op \in {"tagItem", "tagAddress"} /\ ~ev.already_exists)
    => /\ tags[ev.tag_id].frequency = ev.tags[ev.tag_id].frequency + 1
       /\ tags[ev.tag_id].lastUsedAt = ev.now
       /\ tags[ev.tag_id].frecencyScore = 10 * tags[ev.tag_id].frequency

C31_HardDelete ==
    ev.op = "hardDeleteItem"
    => /\ ev.ok = (ev.id \in DOMAIN ev.items)
       /\ DOMAIN items = DOMAIN ev.items \ {ev.id}
       /\ \A i \in DOMAIN items : items[i] = ev.items[i]
       /\ tags = ev.tags
       /\ item_tags = {l \in ev.item_tags : l.itemId # ev.id}
       /\ ~\E l \in item_tags : l.itemId = ev.id

\* C31 witness: hardDeleteItem has removed a soft-deleted item that carried
\* a tag link
C31_Witness ==
    /\ ev.op = "hardDeleteItem" /\ ev.ok
    /\ ev.items[ev.id].deletedAt # 0
    /\ \E l \in ev.item_tags : l.itemId = ev.id
    /\ \E t \in DOMAIN tags : tags[t].frequency >= 1

\* rows that are soft-deleted and carry the given syncId
Tombstones(its, server_id) ==
    {i \in DOMAIN its : its[i].syncId = server_id /\ its[i].deletedAt # 0}

\* C32: a soft-deleted item does not block a pull.  When the merge is given
\* a remote item whose id is the syncId of a soft-deleted row and of no live
\* row, it creates a new live row carrying that syncId and leaves the
\* tombstone as it was; and no push ever selects a soft-deleted row.
C32_TombstoneDoesNotBlock ==
    /\ (ev.op = "merge" /\ ~ev.matched
          /\ Tombstones(items, ev.remote.id) \cap ev.rowsBefore # {})
       => /\ ev.outcome = "pulled"
          /\ ev.id \notin ev.rowsBefore
          /\ ev.id \in Live
          /\ items[ev.id].syncId = ev.remote.id
    /\ ev.op = "pushRead" => \A i \in ev.ids : items[i].deletedAt = 0

\* C34: a row whose content was changed by updateItem after the push read it
\* and before the push committed it is still LOCAL_DIRTY after the commit
\* (updatedAt > syncedAt, counted by pending_count), so a SYNCED row's
\* content is the content that was sent
C34_UpdateDuringPushKept ==
    (ev.op = "postOk" /\ ev.id \in Live /\ items[ev.id].content # ev.sent.content)
    => /\ LOCAL_DIRTY(items[ev.id])
       /\ ev.id \in Pending(items)
       /\ ~SYNCED(items[ev.id])

\* C35: a failed POST leaves the row as it was, and the rows whose POST failed
\* during a full sync that completed are, while live, still counted by
\* pending_count and selected by a push that uses the advanced watermark
C35_FailedPushRetryable ==
    /\ ev.op = "postFail"
       => /\ items[ev.id] = ev.row
          /\ ev.row.deletedAt = 0 => ev.id \in Pending(items)
    /\ (ev.op = "returned" /\ ev.kind = "full" /\ ev.result = "ok")
       => /\ lastSyncTime = ev.start_time
          /\ \A i \in ev.failed_ids \cap Live :
                /\ i \in Pending(items)
                /\ i \in PushSelected(items, lastSyncTime)

\* C37: the sync fields of every row agree: syncId is non-empty exactly when
\* syncSource is "server", exactly when syncedAt > 0; hence every live row is
\* in exactly one of LOCAL_ONLY, SYNCED, LOCAL_DIRTY, and syncSource = '' picks
\* the rows with an empty syncId
C37_SyncFieldsConsistent ==
    \A i \in DOMAIN items :
        LET r == items[i]
        IN  /\ (r.syncId # "") = (r.syncSource = "server")
            /\ (r.syncSource = "server") = (r.syncedAt > 0)
            /\ (r.syncSource = "") = (r.syncId = "")
            /\ r.deletedAt = 0
                  => Cardinality({k \in 1 .. 3 :
                        <<LOCAL_ONLY(r), SYNCED(r), LOCAL_DIRTY(r)>>[k]}) = 1

\* ------------------------------------------------ overlapping full syncs
\* Two sync_full commands on the same store: sync_all has no reentrancy
\* guard, and the store lock is free while a request is in flight.
OverlapTasks == {"t1", "t2"}
OverlapServerItem ==
    { [id |-> "s1", item_type |-> "tagset", content |-> "c2", tags |-> <<>>,
       metadata |-> None, updated_at |-> 2] }

InitOverlap ==
    /\ clock = 1
    /\ lock = "free"
    /\ items = [i \in {generate_id(1)} |-> LocalOnlyRow]
    /\ nextItemId = 2
    /\ tags = <<>>
    /\ item_tags = {}
    /\ address_tags = {}
    /\ mobile = MobileIdle
    /\ apiKey = "key"
    /\ serverUrl = "https://peek"
    /\ lastSyncTime \in {0, 1}
    /\ tasks = [p \in OverlapTasks |-> IdleTask]
    /\ started = MaxSyncs - 2
    /\ localOps = 0
    /\ ev = NoEv

NextOverlap ==
    \/ \E p \in OverlapTasks : StartFull(p)
    \/ \E p \in OverlapTasks, r \in FailReasons : PullFail(p, r)
    \/ \E p \in OverlapTasks, n \in 0 .. MaxResp : PullRecv(p, n)
    \/ \E p \in OverlapTasks, si \in OverlapServerItem : MergeStep(p, si)
    \/ \E p \in OverlapTasks : MergeDone(p)
    \/ \E p \in OverlapTasks : PushRead(p)
    \/ \E p \in OverlapTasks, sid \in ServerIds : PostOk(p, sid)
    \/ \E p \in OverlapTasks, r \in FailReasons : PostFail(p, r)
    \/ \E p \in OverlapTasks : PushDone(p)

SpecOverlap == InitOverlap /\ [][NextOverlap]_vars

\* C38: the stored watermark never decreases, also when two sync_all
\* invocations overlap on the same store
C38_WatermarkMonotone == [][lastSyncTime' >= lastSyncTime]_vars

\* --------------------------------------------------- watermark writers
\* Every command that could touch the watermark, on a store with one row:
\* local CRUD, standalone pull and push, full sync, and sync_set_config called
\* with a watermark of the caller's choice.
InitWatermark ==
    /\ clock = 1
    /\ lock = "free"
    /\ items = [i \in {generate_id(1)} |-> LocalOnlyRow]
    /\ nextItemId = 2
    /\ tags = <<>>
    /\ item_tags = {}
    /\ address_tags = {}
    /\ mobile = MobileIdle
    /\ apiKey = "key"
    /\ serverUrl = "https://peek"
    /\ lastSyncTime \in {0, 1}
    /\ tasks = [p \in Tasks |-> IdleTask]
    /\ started = 0
    /\ localOps = 0
    /\ ev = NoEv

NextWatermark ==
    \/ \E ty \in LocalTypes, o \in LocalOptions : AddItem(ty, o)
    \/ \E i \in DOMAIN items, o \in LocalOptions : UpdateItem(i, o)
    \/ \E i \in DOMAIN items : DeleteItem(i)
    \/ \E w \in 0 .. MaxTime : SyncSetConfig("", "key", w)
    \/ \E p \in Tasks : StartFull(p)
    \/ \E p \in Tasks, since \in {0, lastSyncTime} : StartPull(p, since)
    \/ \E p \in Tasks, w \in {0, lastSyncTime} : StartPush(p, w)
    \/ \E p \in Tasks, r \in FailReasons : PullFail(p, r)
    \/ \E p \in Tasks, n \in 0 .. MaxResp : PullRecv(p, n)
    \/ \E p \in Tasks, si \in OverlapServerItem : MergeStep(p, si)
    \/ \E p \in Tasks : MergeDone(p)
    \/ \E p \in Tasks : PushRead(p)
    \/ \E p \in Tasks, sid \in ServerIds : PostOk(p, sid)
    \/ \E p \in Tasks, r \in FailReasons : PostFail(p, r)
    \/ \E p \in Tasks : PushDone(p)

SpecWatermark == InitWatermark /\ [][NextWatermark]_vars

\* a sync_all that returned Ok after both phases
FullSyncCompleted(e) == e.op = "returned" /\ e.kind = "full" /\ e.result = "ok"

NextTags ==
    \/ \E n \in TagNames : GetOrCreateTag(n)
    \/ \E i \in StoreItemIds, t \in DOMAIN tags : TagItem(i, t)
    \/ \E i \in StoreItemIds, t \in DOMAIN tags : UntagItem(i, t)
    \/ \E i \in StoreItemIds : HardDeleteItem(i)
    \/ \E p \in Tasks : StartPull(p, 0)
    \/ \E p \in Tasks, n \in 0 .. MaxResp : PullRecv(p, n)
    \/ \E p \in Tasks, si \in StoreServerItem : MergeStep(p, si)
    \/ \E p \in Tasks : MergeDone(p)

SpecTags == InitStore /\ [][NextTags]_vars

\* ItemTag rows that reference tag t
LinksOf(t) == {l \in item_tags : l.tagId = t}

\* C40: each tag's frequency is at least the number of ItemTag rows that
\* reference it, and every ItemTag row references an existing tag and an
\* existing item
C40_TagLinksConsistent ==
    /\ \A t \in DOMAIN tags : tags[t].frequency >= Cardinality(LinksOf(t))
    /\ \A l \in item_tags : l.tagId \in DOMAIN tags /\ l.itemId \in DOMAIN items

\* ------------------------------------------------------- mobile backend
\* src/backend/tauri-mobile: the items table and the sync commands.  The tags
\* and item_tags tables are not followed: neither the merge classification nor
\* the push selection reads them.  The server is taken as configured.
MaxMobileItems == 3
MaxMobileOps == 2
MaxMobileSyncs == 2
MobileIdSeq == <<"m1", "m2", "m3", "m4">>
\* uuid::Uuid::new_v4: a fresh id
new_v4(n) == MobileIdSeq[n]
\* updated_at of a server item: unparsable, or any time up to one past the
\* local clock's range
MobileStamps == {BadStamp} \cup (1 .. MaxTime + 1)
MobileServerItem ==
    { [id |-> "s1", item_type |-> "text", content |-> "c2", updated_at |-> u] :
        u \in MobileStamps }

\* parse_iso_datetime: Some(time) or None, as a set
parse_iso_datetime(iso) == IF iso = BadStamp THEN {} ELSE {iso}

\* get_items_to_push: never synced, or updated after last_sync when there is
\* one; rows in rowid order
PushCandidates(its, last_sync) ==
    {i \in DOMAIN its :
        /\ its[i].deleted_at = 0
        /\ \/ its[i].sync_source = ""
           \/ (last_sync # 0 /\ its[i].updated_at > last_sync)}

RECURSIVE InIdOrder(_)
InIdOrder(ids) ==
    IF ids = {} THEN <<>>
    ELSE LET i == CHOOSE x \in ids :
                    \A y \in ids :
                        (CHOOSE n \in DOMAIN MobileIdSeq : MobileIdSeq[n] = x)
                            <= (CHOOSE n \in DOMAIN MobileIdSeq : MobileIdSeq[n] = y)
         IN  <<i>> \o InIdOrder(ids \ {i})

get_items_to_push(its, last_sync) == InIdOrder(PushCandidates(its, last_sync))

was_deleted_Never(its, server_id) == FALSE

\* merge_server_item, first query: a soft-deleted row carries this sync_id
was_deleted(its, server_id) ==
    \E i \in DOMAIN its : its[i].sync_id = server_id /\ its[i].deleted_at # 0

\* merge_server_item, second query: the live rows that carry this sync_id
local_item(its, server_id) ==
    {i \in DOMAIN its : its[i].sync_id = server_id /\ its[i].deleted_at = 0}

\* merge_server_item: the outcome, the table after it, and the row it wrote
merge_server_item(its, next_id, server_item, now) ==
    IF parse_iso_datetime(server_item.updated_at) = {}
    THEN [outcome |-> "error", items |-> its, id |-> ""]
    ELSE IF was_deleted(its, server_item.id)
    THEN [outcome |-> "skipped", items |-> its, id |-> ""]
    ELSE IF local_item(its, server_item.id) # {}
    THEN LET i == Head(InIdOrder(local_item(its, server_item.id)))
         IN  IF server_item.updated_at > its[i].updated_at
             THEN [outcome |-> "pulled",
                   items |-> [its EXCEPT ![i] =
                       [@ EXCEPT !.type = server_item.item_type,
                                 !.content = server_item.content,
                                 !.updated_at = server_item.updated_at]],
                   id |-> i]
             ELSE IF its[i].updated_at > server_item.updated_at
             THEN [outcome |-> "conflict", items |-> its, id |-> ""]
             ELSE [outcome |-> "skipped", items |-> its, id |-> ""]
    ELSE [outcome |-> "pulled",
          items |-> [i \in DOMAIN its \cup {new_v4(next_id)} |->
              IF i = new_v4(next_id)
              THEN [type |-> server_item.item_type,
                    content |-> server_item.content,
                    sync_id |-> server_item.id, sync_source |-> "server",
                    synced_at |-> now, updated_at |-> server_item.updated_at,
                    deleted_at |-> 0]
              ELSE its[i]],
          id |-> new_v4(next_id)]

\* save_text: a new row that was never synced
SaveText(content) ==
    /\ mobile.ops < MaxMobileOps
    /\ mobile.next_id <= MaxMobileItems
    /\ \E now \in Now :
        /\ clock' = now
        /\ mobile' = [mobile EXCEPT
              !.items = [i \in DOMAIN mobile.items \cup {new_v4(mobile.next_id)} |->
                  IF i = new_v4(mobile.next_id)
                  THEN [type |-> "text", content |-> content, sync_id |-> "",
                        sync_source |-> "", synced_at |-> 0,
                        updated_at |-> now, deleted_at |-> 0]
                  ELSE mobile.items[i]],
              !.next_id = @ + 1,
              !.ops = @ + 1]
    /\ ev' = [op |-> "saveText"]
    /\ UNCHANGED <<lock, items, nextItemId, tags, item_tags, address_tags, apiKey,
                   serverUrl, lastSyncTime, tasks, started, localOps>>

\* delete_url: UPDATE items SET deleted_at = now, updated_at = now WHERE id = ?
DeleteUrl(id) ==
    /\ mobile.ops < MaxMobileOps
    /\ \E now \in Now :
        /\ clock' = now
        /\ mobile' = [mobile EXCEPT
              !.items = [i \in DOMAIN mobile.items |->
                  IF i = id
                  THEN [mobile.items[i] EXCEPT !.deleted_at = now,
                                               !.updated_at = now]
                  ELSE mobile.items[i]],
              !.ops = @ + 1]
        /\ ev' = [op |-> "deleteUrl", id |-> id, at |-> now,
                  items |-> mobile.items]
    /\ UNCHANGED <<lock, items, nextItemId, tags, item_tags, address_tags, apiKey,
                   serverUrl, lastSyncTime, tasks, started, localOps>>

\* pull_from_server, push_to_server or sync_all is called
MobileStart(kind) ==
    /\ mobile.pc = "idle"
    /\ mobile.syncs < MaxMobileSyncs
    /\ mobile' = [mobile EXCEPT
          !.pc = IF kind = "push" THEN "push_read" ELSE "pull_wait",
          !.kind = kind, !.merged = {}, !.queue = <<>>, !.remaining = 0,
          !.syncs = @ + 1]
    /\ ev' = [op |-> "mobileStart", kind |-> kind]
    /\ UNCHANGED <<clock, lock, items, nextItemId, tags, item_tags, address_tags, apiKey,
                   serverUrl, lastSyncTime, tasks, started, localOps>>

\* the GET fails, or the response is not a success or does not parse: Err
MobilePullFail ==
    /\ mobile.pc = "pull_wait"
    /\ mobile' = [mobile EXCEPT !.pc = "idle", !.kind = "none"]
    /\ ev' = [op |-> "mobileReturned", kind |-> mobile.kind, result |-> "err"]
    /\ UNCHANGED <<clock, lock, items, nextItemId, tags, item_tags, address_tags, apiKey,
                   serverUrl, lastSyncTime, tasks, started, localOps>>

\* the response arrives with n items
MobilePullRecv(n) ==
    /\ mobile.pc = "pull_wait"
    /\ mobile' = [mobile EXCEPT !.pc = "merge", !.remaining = n]
    /\ ev' = [op |-> "mobilePullRecv"]
    /\ UNCHANGED <<clock, lock, items, nextItemId, tags, item_tags, address_tags, apiKey,
                   serverUrl, lastSyncTime, tasks, started, localOps>>

\* one round of the merge loop; `?` on an Err ends the command
MobileMergeStep(server_item) ==
    /\ mobile.pc = "merge"
    /\ mobile.remaining > 0
    /\ \E now \in Now :
        /\ clock' = now
        /\ LET r == merge_server_item(mobile.items, mobile.next_id, server_item, now)
           IN  /\ DOMAIN r.items # DOMAIN mobile.items
                     => mobile.next_id <= MaxMobileItems
               /\ mobile' = [mobile EXCEPT
                     !.items = r.items,
                     !.next_id = IF DOMAIN r.items = DOMAIN mobile.items
                                 THEN @ ELSE @ + 1,
                     !.pc = IF r.outcome = "error" THEN "idle" ELSE @,
                     !.kind = IF r.outcome = "error" THEN "none" ELSE @,
                     !.remaining = IF r.outcome = "error" THEN 0 ELSE @ - 1,
                     !.merged = IF r.outcome = "pulled" THEN @ \cup {r.id} ELSE @]
               /\ ev' = [op |-> "mobileMerge", outcome |-> r.outcome,
                         remote |-> server_item, id |-> r.id, at |-> now,
                         items |-> mobile.items]
    /\ UNCHANGED <<lock, items, nextItemId, tags, item_tags, address_tags, apiKey,
                   serverUrl, lastSyncTime, tasks, started, localOps>>

\* the merge loop is over: pull returns Ok; sync_all goes on to the push
MobileMergeDone ==
    /\ mobile.pc = "merge"
    /\ mobile.remaining = 0
    /\ mobile' = [mobile EXCEPT
          !.pc = IF mobile.kind = "full" THEN "push_read" ELSE "idle",
          !.kind = IF mobile.kind = "full" THEN @ ELSE "none"]
    /\ ev' = [op |-> "mobileMergeDone", kind |-> mobile.kind]
    /\ UNCHANGED <<clock, lock, items, nextItemId, tags, item_tags, address_tags, apiKey,
                   serverUrl, lastSyncTime, tasks, started, localOps>>

\* push_to_server up to the loop: last_sync is read again and the items are
\* selected; with nothing to push it returns at once, and sync_all then
\* stores last_sync = now
MobilePushRead ==
    /\ mobile.pc = "push_read"
    /\ \E now \in Now :
        /\ clock' = now
        /\ LET q == get_items_to_push(mobile.items, mobile.last_sync)
           IN  /\ mobile' = [mobile EXCEPT
                     !.queue = q,
                     !.pc = IF q = <<>> THEN "idle" ELSE "push_loop",
                     !.kind = IF q = <<>> THEN "none" ELSE @,
                     !.last_sync = IF q = <<>> /\ mobile.kind = "full"
                                   THEN now ELSE @]
               /\ ev' = [op |-> "mobilePushRead", kind |-> mobile.kind,
                         ids |-> {q[k] : k \in DOMAIN q},
                         merged |-> mobile.merged,
                         last_sync |-> mobile.last_sync]
    /\ UNCHANGED <<lock, items, nextItemId, tags, item_tags, address_tags, apiKey,
                   serverUrl, lastSyncTime, tasks, started, localOps>>

\* the POST of the next item succeeded: the row takes the server's id
MobilePostOk(server_id) ==
    /\ mobile.pc = "push_loop"
    /\ mobile.queue # <<>>
    /\ \E now \in Now :
        /\ clock' = now
        /\ mobile' = [mobile EXCEPT
              !.items = [i \in DOMAIN mobile.items |->
                  IF i = Head(mobile.queue)
                  THEN [mobile.items[i] EXCEPT !.sync_id = server_id,
                                               !.sync_source = "server",
                                               !.synced_at = now]
                  ELSE mobile.items[i]],
              !.queue = Tail(@)]
    /\ ev' = [op |-> "mobilePostOk", id |-> Head(mobile.queue)]
    /\ UNCHANGED <<lock, items, nextItemId, tags, item_tags, address_tags, apiKey,
                   serverUrl, lastSyncTime, tasks, started, localOps>>

\* the POST of the next item failed: counted, the loop goes on
MobilePostFail ==
    /\ mobile.pc = "push_loop"
    /\ mobile.queue # <<>>
    /\ mobile' = [mobile EXCEPT !.queue = Tail(@)]
    /\ ev' = [op |-> "mobilePostFail", id |-> Head(mobile.queue)]
    /\ UNCHANGED <<clock, lock, items, nextItemId, tags, item_tags, address_tags, apiKey,
                   serverUrl, lastSyncTime, tasks, started, localOps>>

\* the push loop is over: push returns Ok; sync_all_internal then stores
\* last_sync = now
MobilePushDone ==
    /\ mobile.pc = "push_loop"
    /\ mobile.queue = <<>>
    /\ \E now \in Now :
        /\ clock' = now
        /\ mobile' = [mobile EXCEPT
              !.pc = "idle", !.kind = "none",
              !.last_sync = IF mobile.kind = "full" THEN now ELSE @]
    /\ ev' = [op |-> "mobileReturned", kind |-> mobile.kind, result |-> "ok"]
    /\ UNCHANGED <<lock, items, nextItemId, tags, item_tags, address_tags, apiKey,
                   serverUrl, lastSyncTime, tasks, started, localOps>>

\* a row that was pushed or pulled at time 1
MobileSyncedRow ==
    [type |-> "text", content |-> "c1", sync_id |-> "s1", sync_source |-> "server",
     synced_at |-> 1, updated_at |-> 1, deleted_at |-> 0]

InitMobile ==
    /\ clock = 1
    /\ lock = "free"
    /\ items = <<>>
    /\ nextItemId = 1
    /\ tags = <<>>
    /\ item_tags = {}
    /\ address_tags = {}
    /\ apiKey = "key"
    /\ serverUrl = "https://peek"
    /\ lastSyncTime = 0
    /\ tasks = [p \in Tasks |-> IdleTask]
    /\ started = 0
    /\ localOps = 0
    /\ \E its \in {<<>>, [i \in {new_v4(1)} |-> MobileSyncedRow]},
          w \in {0, 1} :
          mobile = [MobileIdle EXCEPT
                       !.items = its,
                       !.next_id = IF its = <<>> THEN 1 ELSE 2,
                       !.last_sync = w]
    /\ ev = NoEv

MobileItemIds == DOMAIN mobile.items \cup {new_v4(MaxMobileItems + 1)}

NextMobile ==
    \/ SaveText("c1")
    \/ \E i \in MobileItemIds : DeleteUrl(i)
    \/ \E k \in {"pull", "push", "full"} : MobileStart(k)
    \/ MobilePullFail
    \/ \E n \in 0 .. MaxResp : MobilePullRecv(n)
    \/ \E si \in MobileServerItem : MobileMergeStep(si)
    \/ MobileMergeDone
    \/ MobilePushRead
    \/ \E sid \in ServerIds : MobilePostOk(sid)
    \/ MobilePostFail
    \/ MobilePushDone

SpecMobile == InitMobile /\ [][NextMobile]_vars

\* soft-deleted rows of the mobile table that carry this sync_id
MobileTombstones(its, server_id) ==
    {i \in DOMAIN its : its[i].sync_id = server_id /\ its[i].deleted_at # 0}

\* C33 as claimed: once a row with sync_id S is soft-deleted, every merge of
\* server item S is classified skipped and leaves the table as it was,
\* whatever the item's updated_at
C33_DeletedStaysDeleted ==
    (ev.op = "mobileMerge" /\ MobileTombstones(ev.items, ev.remote.id) # {})
    => /\ ev.outcome = "skipped"
       /\ mobile.items = ev.items

\* C33: as above for an updated_at that parses; one that does not parse makes
\* the merge fail before the tombstone is looked at, and the table is left as
\* it was in both cases
C33_DeletedNeverRecreated ==
    (ev.op = "mobileMerge" /\ MobileTombstones(ev.items, ev.remote.id) # {})
    => /\ ev.outcome = IF parse_iso_datetime(ev.remote.updated_at) = {}
                       THEN "error" ELSE "skipped"
       /\ mobile.items = ev.items

\* C33 witness: a server item newer than the tombstone of its sync_id has been
\* merged and skipped
C33_Witness ==
    /\ ev.op = "mobileMerge" /\ ev.outcome = "skipped"
    /\ \E i \in MobileTombstones(ev.items, ev.remote.id) :
          ev.remote.updated_at > ev.items[i].updated_at

\* C36: in a sync_all that found a stored last_sync, no row that the pull
\* phase inserted or overwrote is selected by the push phase
C36_PulledNotPushed ==
    (ev.op = "mobilePushRead" /\ ev.kind = "full" /\ ev.last_sync # 0)
    => ev.ids \cap ev.merged = {}
====
